---- MODULE Spec2Model ----
(***************************************************************************)
(* obsidian-tasks: the recurrence/duration activation engine of main.go.   *)
(*                                                                         *)
(* Instants are whole seconds since Go's zero time (0001-01-01T00:00:00Z), *)
(* spans are whole seconds.  Texts (duration and dtstart fields) are       *)
(* sequences of one-character strings, so that the parsers scan them the   *)
(* way the source does.                                                    *)
(*                                                                         *)
(* Four specifications:                                                    *)
(*   SpecDur    ParseDuration applied to a bounded set of duration texts;   *)
(*   SpecStart  ParseStartDate applied to a bounded set of start texts and  *)
(*              fallbacks, and ApplyDefaults on such a start text;          *)
(*   Spec       the WalkDir callback of main for one markdown file:         *)
(*              processFile, then isTaskActive, then the append to one of   *)
(*              the three task lists, with the wall clock free to advance   *)
(*              between the clock reads;                                    *)
(*   SpecScan   main's WalkDir over up to MaxFiles files.                   *)
(***************************************************************************)
EXTENDS Integers, Sequences, FiniteSets, TLC

VARIABLES
    durText,        \* SpecDur: the argument of ParseDuration
    durResult,      \* SpecDur: what ParseDuration returned (or NotRun)
    startText,      \* SpecStart: the arguments of ParseStartDate
    startFallback,
    startResult,    \* SpecStart: what ParseStartDate returned (or NotRead)
    files,          \* SpecScan: the front matter of the files WalkDir visits
    idx,            \* SpecScan: the number of files visited
    now,            \* the wall clock, time.Now()
    pc,             \* position in the WalkDir callback
    fm,             \* the FrontMatter parsed from the file
    task,           \* the Task built by processFile
    clk,            \* the clock value each function of the callback read
    fmd,            \* ApplyDefaults' result
    verdict,        \* isTaskActive's result
    activeTasks,    \* main's three lists
    inactiveTasks,
    errorTasks

vars == <<durText, durResult, startText, startFallback, startResult, files, idx,
          now, pc, fm, task, clk, fmd, verdict,
          activeTasks, inactiveTasks, errorTasks>>

durVars == <<durText, durResult>>
startVars == <<startText, startFallback, startResult>>
scanVars == <<files, idx>>
engineVars == <<now, pc, fm, task, clk, fmd, verdict,
                activeTasks, inactiveTasks, errorTasks>>

----------------------------------------------------------------------------
(* Bounds *)

\* longest duration text drawn from the whole alphabet (SpecDur)
MaxLen == 4

\* the wall clock ranges over the days 0002-01-10 .. 0002-01-10 + MaxClockDay
MaxClockDay == 1

\* the most files WalkDir visits in one scan (SpecScan)
MaxFiles == 2

----------------------------------------------------------------------------
(* time.Duration units, in seconds *)

Minute == 60
Hour == 60 * Minute
Day == 24 * Hour

----------------------------------------------------------------------------
(* Characters and strings *)

Digits == <<"0", "1", "2", "3", "4", "5", "6", "7", "8", "9">>

IsDigit(c) == \E k \in 1..10 : Digits[k] = c

DigitVal(c) == (CHOOSE k \in 1..10 : Digits[k] = c) - 1

\* strconv of a run of digits
RECURSIVE Atoi(_)
Atoi(s) == IF s = <<>> THEN 0
           ELSE 10 * Atoi(SubSeq(s, 1, Len(s) - 1)) + DigitVal(s[Len(s)])

\* the scan "for i < len(s) && s[i] >= '0' && s[i] <= '9' { i++ }"
RECURSIVE DigitRun(_)
DigitRun(s) == IF s # <<>> /\ IsDigit(Head(s)) THEN 1 + DigitRun(Tail(s)) ELSE 0

\* strings.Index(s, c) + 1: the first position of c in s, 0 when absent
RECURSIVE IndexOf(_, _)
IndexOf(s, c) ==
    IF s = <<>> THEN 0
    ELSE IF Head(s) = c THEN 1
    ELSE LET r == IndexOf(Tail(s), c) IN IF r = 0 THEN 0 ELSE r + 1

\* s[from:] with from counted from 0 as in Go
Drop(s, from) == SubSeq(s, from + 1, Len(s))

----------------------------------------------------------------------------
(* ParseDuration *)

\* the three ways a call of ParseDuration ends
DurOk(d) == [kind |-> "ok", d |-> d, msg |-> ""]
DurErr(m) == [kind |-> "err", d |-> 0, msg |-> m]
\* remaining[i : i+1] with i = len(remaining): slice bounds out of range
DurPanic == [kind |-> "panic", d |-> 0, msg |-> "slice bounds out of range"]
\* ParseDuration was not called yet
NotRun == [kind |-> "none", d |-> 0, msg |-> ""]

\* time.ParseDuration(value + unit) is an error when the value overflows int64
\* nanoseconds: above 2562047 hours or 153722867 minutes (no number of seconds
\* an instant of this model can hold is that large)
ParseDurationFails(value, unit) ==
    \/ unit = "h" /\ value > 2562047
    \/ unit = "m" /\ value > 153722867

HasPrefixPWrong(s) == TRUE
HasPrefixP(s) == s # <<>> /\ Head(s) = "P"

DateUnits == {"D", "W", "M", "Y"}

DateUnitSizeWrong(unit) ==
    CASE unit = "D" -> 24 * Hour
      [] unit = "W" -> 7 * 24 * Hour
      [] unit = "M" -> 31 * 24 * Hour
      [] unit = "Y" -> 365 * 24 * Hour
      [] OTHER -> 0
\* the switch of the date loop
DateUnitSize(unit) ==
    CASE unit = "D" -> 24 * Hour
      [] unit = "W" -> 7 * 24 * Hour
      [] unit = "M" -> 30 * 24 * Hour
      [] unit = "Y" -> 365 * 24 * Hour
      [] OTHER -> 0

TimeUnits == {"H", "M", "S"}

\* the switch of the time loop
TimeUnitSize(unit) ==
    CASE unit = "H" -> Hour
      [] unit = "M" -> Minute
      [] unit = "S" -> 1
      [] OTHER -> 0

\* the suffix the time loop hands to time.ParseDuration
TimeSuffix(unit) ==
    CASE unit = "H" -> "h"
      [] unit = "M" -> "m"
      [] OTHER -> "s"

\* the loop "for remaining != ''" over the part before T
RECURSIVE ParseDateComponents(_, _)
ParseDateComponents(remaining, duration) ==
    IF remaining = <<>> THEN DurOk(duration)
    ELSE LET i == DigitRun(remaining) IN
         IF i = 0 THEN DurOk(duration)                       \* break
         ELSE IF i + 1 > Len(remaining) THEN DurPanic
         ELSE LET value == Atoi(SubSeq(remaining, 1, i))
                  unit == remaining[i + 1]
              IN IF ParseDurationFails(value, "h") THEN DurErr("time: invalid duration")
                 ELSE IF unit \in DateUnits
                      THEN ParseDateComponents(Drop(remaining, i + 1),
                                               duration + value * DateUnitSize(unit))
                      ELSE DurErr("unknown date unit")

\* the loop "for timePart != ''" over the part after T; a component whose
\* time.ParseDuration fails is skipped
RECURSIVE ParseTimeComponents(_, _)
ParseTimeComponents(timePart, duration) ==
    IF timePart = <<>> THEN DurOk(duration)
    ELSE LET i == DigitRun(timePart) IN
         IF i = 0 THEN DurOk(duration)                       \* break
         ELSE IF i + 1 > Len(timePart) THEN DurPanic
         ELSE LET value == Atoi(SubSeq(timePart, 1, i))
                  unit == timePart[i + 1]
              IN IF unit \in TimeUnits
                 THEN ParseTimeComponents(Drop(timePart, i + 1),
                        IF ParseDurationFails(value, TimeSuffix(unit))
                        THEN duration
                        ELSE duration + value * TimeUnitSize(unit))
                 ELSE DurErr("unknown time unit")

ParseDuration(durationStr) ==
    IF durationStr = <<>> THEN DurOk(24 * Hour)
    ELSE IF ~HasPrefixP(durationStr) THEN DurErr("duration must start with 'P'")
    ELSE LET afterP == Drop(durationStr, 1)
             tIndex == IndexOf(afterP, "T")
             timePart == IF tIndex > 0 THEN Drop(afterP, tIndex) ELSE <<>>
             remaining == IF tIndex > 0 THEN SubSeq(afterP, 1, tIndex - 1) ELSE afterP
             date == ParseDateComponents(remaining, 0)
         IN IF date.kind # "ok" THEN date
            ELSE ParseTimeComponents(timePart, date.d)

----------------------------------------------------------------------------
(* The calendar of package time (proleptic Gregorian, UTC).  An operator    *)
(* that needs an intermediate value more than once takes it as a parameter  *)
(* of a helper (named ...In, ...From, ...With).                             *)

IsLeap(y) == (y % 4 = 0 /\ y % 100 # 0) \/ y % 400 = 0

\* days from 0001-01-01 to January 1 of year y
DaysBeforeYear(y) ==
    365 * (y - 1) + ((y - 1) \div 4) - ((y - 1) \div 100) + ((y - 1) \div 400)

DaysBeforeMonthTable == <<0, 31, 59, 90, 120, 151, 181, 212, 243, 273, 304, 334, 365>>

\* days from January 1 of year y to the first of month m (m = 13: to the next year)
DaysBeforeMonth(y, m) ==
    DaysBeforeMonthTable[m] + (IF m > 2 /\ IsLeap(y) THEN 1 ELSE 0)

DaysIn(y, m) == DaysBeforeMonth(y, m + 1) - DaysBeforeMonth(y, m)

\* time.Date(y, m, d, h, mi, sec, 0, time.UTC); a day past the month's end
\* runs into the next month as in Go
DateOf(y, m, d, h, mi, sec) ==
    (DaysBeforeYear(y) + DaysBeforeMonth(y, m) + d - 1) * Day
    + h * Hour + mi * Minute + sec

\* the years the instants of the model lie in
Years == 0 .. 5

YearOf(t) ==
    CHOOSE y \in Years : DaysBeforeYear(y) * Day <= t /\ t < DaysBeforeYear(y + 1) * Day

\* the month that holds day doy (from 0) of year y
MonthIn(y, doy) ==
    CHOOSE m \in 1..12 : DaysBeforeMonth(y, m) <= doy /\ doy < DaysBeforeMonth(y, m + 1)

\* t.Truncate(24 * time.Hour): down to a multiple of 24 h since the zero time
Truncate(t) == t - (t % Day)

\* the date of t, year y, moved to year y + years
AddYearsWithMonth(t, years, y, doy, m) ==
    DateOf(y + years, m, doy - DaysBeforeMonth(y, m) + 1, 0, 0, 0) + (t % Day)

AddYearsIn(t, years, y, doy) == AddYearsWithMonth(t, years, y, doy, MonthIn(y, doy))

AddYearsFrom(t, years, y) == AddYearsIn(t, years, y, (t \div Day) - DaysBeforeYear(y))

\* t.AddDate(years, 0, 0)
AddYears(t, years) == AddYearsFrom(t, years, YearOf(t))

\* the zero time.Time
ZeroTime == 0

IsZero(t) == t = ZeroTime

----------------------------------------------------------------------------
(* ParseStartDate *)

\* the value of the n digits of s from position i, -1 when they are not n digits
Num(s, i, n) ==
    IF i + n - 1 <= Len(s) /\ \A k \in i..(i + n - 1) : IsDigit(s[k])
    THEN Atoi(SubSeq(s, i, i + n - 1))
    ELSE -1

\* whether s holds the literal lit at position i
Lit(s, i, lit) ==
    i + Len(lit) - 1 <= Len(s) /\ SubSeq(s, i, i + Len(lit) - 1) = lit

ParseOk(t) == [ok |-> TRUE, t |-> t]
ParseFail == [ok |-> FALSE, t |-> 0]

\* the range checks at the end of time.Parse, and the time it returns
Parsed(y, m, d, h, mi, sec) ==
    IF /\ y >= 0 /\ m \in 1..12 /\ d >= 1
       /\ h \in 0..23 /\ mi \in 0..59 /\ sec \in 0..59
       /\ d <= DaysIn(y, m)
    THEN ParseOk(DateOf(y, m, d, h, mi, sec))
    ELSE ParseFail

\* time.Parse("2006-01-02", s)
ParseLayoutDate(s) ==
    IF Len(s) = 10 /\ Lit(s, 5, <<"-">>) /\ Lit(s, 8, <<"-">>)
    THEN Parsed(Num(s, 1, 4), Num(s, 6, 2), Num(s, 9, 2), 0, 0, 0)
    ELSE ParseFail

\* a fractional second in the input right after the seconds field, which
\* time.Parse accepts although the layout has none: a period or comma and the
\* digits after it; its length, 0 when there is none at position i
FractionLen(s, i) ==
    IF i + 1 <= Len(s) /\ s[i] \in {".", ","} /\ IsDigit(s[i + 1])
    THEN 1 + DigitRun(Drop(s, i))
    ELSE 0

\* the clock fields of the date-time layouts, the hour being hl digits wide
\* and the fractional second fl characters
ParseLayoutDateTimeIn(s, suffix, hl, fl) ==
    IF /\ Lit(s, 5, <<"-">>) /\ Lit(s, 8, <<"-">>) /\ Lit(s, 11, <<"T">>)
       /\ Lit(s, 12 + hl, <<":">>) /\ Lit(s, 15 + hl, <<":">>)
       /\ Lit(s, 18 + hl + fl, suffix)
       /\ Len(s) = 17 + hl + fl + Len(suffix)
    THEN Parsed(Num(s, 1, 4), Num(s, 6, 2), Num(s, 9, 2),
                Num(s, 12, hl), Num(s, 13 + hl, 2), Num(s, 16 + hl, 2))
    ELSE ParseFail

ParseLayoutDateTimeWith(s, suffix, hl) ==
    ParseLayoutDateTimeIn(s, suffix, hl, FractionLen(s, 18 + hl))

\* time.Parse("2006-01-02T15:04:05" + suffix, s); the hour field takes one or
\* two digits, the other fields are of fixed width
ParseLayoutDateTime(s, suffix) ==
    ParseLayoutDateTimeWith(s, suffix, IF Num(s, 12, 2) >= 0 THEN 2 ELSE 1)

\* time.Parse("20060102T000000Z", s): after the day the layout is literal
ParseLayoutCompact(s) ==
    IF Len(s) = 16 /\ Lit(s, 9, <<"T", "0", "0", "0", "0", "0", "0", "Z">>)
    THEN Parsed(Num(s, 1, 4), Num(s, 5, 2), Num(s, 7, 2), 0, 0, 0)
    ELSE ParseFail

\* the formats slice, in order
Formats(s) ==
    << ParseLayoutDate(s), ParseLayoutDateTime(s, <<"Z">>),
       ParseLayoutDateTime(s, <<>>), ParseLayoutCompact(s) >>

FirstFormatZeroOnFailure(f, fallbackDate) ==
    IF \E k \in 1..4 : f[k].ok
    THEN Truncate(f[CHOOSE k \in 1..4 : f[k].ok /\ \A j \in 1..(k - 1) : ~f[j].ok].t)
    ELSE ZeroTime
FirstFormatUntruncated(f, fallbackDate) ==
    IF \E k \in 1..4 : f[k].ok
    THEN f[CHOOSE k \in 1..4 : f[k].ok /\ \A j \in 1..(k - 1) : ~f[j].ok].t
    ELSE fallbackDate
\* the loop over the formats: the first that parses wins
FirstFormat(f, fallbackDate) ==
    IF \E k \in 1..4 : f[k].ok
    THEN Truncate(f[CHOOSE k \in 1..4 : f[k].ok /\ \A j \in 1..(k - 1) : ~f[j].ok].t)
    ELSE fallbackDate

ParseStartDate(dtStartStr, fallbackDate) ==
    IF dtStartStr = <<>> THEN fallbackDate
    ELSE FirstFormat(Formats(dtStartStr), fallbackDate)

\* the wrapper, with the clock value t it reads
parseStartDate(dtStartStr, t) ==
    ParseStartDate(dtStartStr, Truncate(AddYears(t, -1)))

----------------------------------------------------------------------------
(* The recurrence library (github.com/teambition/rrule-go), for the rules    *)
(* of RuleTexts: FREQ=DAILY or WEEKLY with INTERVAL and COUNT.  DTSTART is   *)
(* always written with T000000Z, so every occurrence is a UTC midnight.      *)

RuleOk(freq, interval, count) ==
    [ok |-> TRUE, freq |-> freq, interval |-> interval, count |-> count]
RuleErr == [ok |-> FALSE, freq |-> "", interval |-> 0, count |-> 0]

\* rrule.StrToRRule("DTSTART:...\nRRULE:" + text); count = 0: no COUNT
StrToRRule(text) ==
    CASE text = "FREQ=DAILY" -> RuleOk("DAILY", 1, 0)
      [] text = "FREQ=DAILY;INTERVAL=2" -> RuleOk("DAILY", 2, 0)
      [] text = "FREQ=DAILY;INTERVAL=3;COUNT=2" -> RuleOk("DAILY", 3, 2)
      [] text = "FREQ=WEEKLY" -> RuleOk("WEEKLY", 1, 0)
      [] OTHER -> RuleErr

\* the span between two occurrences
Step(r) == (IF r.freq = "WEEKLY" THEN 7 ELSE 1) * r.interval * Day

Max(a, b) == IF a >= b THEN a ELSE b
Min(a, b) == IF a <= b THEN a ELSE b

\* the occurrences number kmin .. kmax (0: DTSTART itself), ascending
OccurrencesFrom(dtstart, step, kmin, kmax) ==
    [j \in 1..(kmax - kmin + 1) |-> dtstart + (kmin + j - 1) * step]

\* klast cut to the rule's COUNT
WithinCount(r, klast) == IF r.count > 0 THEN Min(klast, r.count - 1) ELSE klast

BetweenWith(r, dtstart, after, before, step) ==
    OccurrencesFrom(dtstart, step,
                    Max(0, (after - dtstart + step - 1) \div step),
                    WithinCount(r, IF before < dtstart THEN -1
                                   ELSE (before - dtstart) \div step))

\* r.Between(after, before, true): the occurrences o with after <= o <= before,
\* ascending
Between(r, dtstart, after, before) == BetweenWith(r, dtstart, after, before, Step(r))

----------------------------------------------------------------------------
(* Front matter, tasks, and the functions of the activation engine.  Every  *)
(* function that calls time.Now() takes the value it reads as parameter t.  *)

\* a *time.Time
Nil == [set |-> FALSE, at |-> 0]
Ptr(t) == [set |-> TRUE, at |-> t]

\* a nil error
NoError == ""

TaskOf(name, rrule, duration, nextStart, dueDate) ==
    [Name |-> name, RRule |-> rrule, Duration |-> duration,
     NextStart |-> nextStart, DueDate |-> dueDate, Error |-> NoError]

\* Task{}
EmptyTask == TaskOf("", "", <<>>, Nil, Nil)

LookaheadStartWrong(today) == today
\* the first instant getNextOccurrence asks for
LookaheadStart(today) == today + 24 * Hour

\* the last instant getNextOccurrence asks for
LookaheadEnd(today) == AddYears(today, 1)

\* "if len(nextOccurrences) > 0"
FirstOf(nextOccurrences) ==
    IF Len(nextOccurrences) > 0 THEN Ptr(Truncate(nextOccurrences[1])) ELSE Nil

getNextOccurrenceWith(today, startDate, r) ==
    IF ~r.ok THEN Nil
    ELSE FirstOf(Between(r, startDate, LookaheadStart(today), LookaheadEnd(today)))

getNextOccurrence(f, t) ==
    IF f.RRule = "" THEN Nil
    ELSE getNextOccurrenceWith(Truncate(t), parseStartDate(f.DTStart, t),
                               StrToRRule(f.RRule))

\* the window test of getCurrentDueDate
InDueWindow(today, occurrenceStart, occurrenceEnd) ==
    (today = occurrenceStart \/ today > occurrenceStart) /\ today < occurrenceEnd

LastDayOfWrong(occurrenceEnd) == occurrenceEnd
\* "Last day of active period"
LastDayOf(occurrenceEnd) == occurrenceEnd - 24 * Hour

\* what a function that may panic hands back
Returned(ptr) == [panic |-> FALSE, ptr |-> ptr]
Panicked == [panic |-> TRUE, ptr |-> Nil]

\* the window test on one occurrence of the loop
InDueWindowOf(today, duration, occurrence) ==
    InDueWindow(today, Truncate(occurrence), Truncate(occurrence) + duration)

FirstDueOfLast(today, duration, occurrences) ==
    IF \E k \in 1..Len(occurrences) : InDueWindowOf(today, duration, occurrences[k])
    THEN Ptr(LastDayOf(Truncate(occurrences[
             CHOOSE k \in 1..Len(occurrences) :
                 /\ InDueWindowOf(today, duration, occurrences[k])
                 /\ \A j \in (k + 1)..Len(occurrences) :
                        ~InDueWindowOf(today, duration, occurrences[j])])
           + duration))
    ELSE Nil
\* the loop over the occurrences: the due date of the first whose window
\* holds today
FirstDue(today, duration, occurrences) ==
    IF \E k \in 1..Len(occurrences) : InDueWindowOf(today, duration, occurrences[k])
    THEN Ptr(LastDayOf(Truncate(occurrences[
             CHOOSE k \in 1..Len(occurrences) :
                 /\ InDueWindowOf(today, duration, occurrences[k])
                 /\ \A j \in 1..(k - 1) :
                        ~InDueWindowOf(today, duration, occurrences[j])])
           + duration))
    ELSE Nil

getCurrentDueDateWith(today, startDate, dur, r) ==
    IF dur.kind = "panic" THEN Panicked
    ELSE IF dur.kind = "err" THEN Returned(Nil)
    ELSE IF ~r.ok THEN Returned(Nil)
    ELSE Returned(FirstDue(today, dur.d, Between(r, startDate, startDate, today + dur.d)))

getCurrentDueDate(f, t) ==
    IF f.RRule = "" THEN Returned(Nil)
    ELSE getCurrentDueDateWith(Truncate(t), parseStartDate(f.DTStart, t),
                               ParseDuration(f.Duration), StrToRRule(f.RRule))

getOneTimeDueDateWith(startDate, dur) ==
    IF dur.kind = "panic" THEN Panicked
    ELSE IF dur.kind = "err" THEN Returned(Nil)
    ELSE Returned(Ptr(startDate + dur.d - 24 * Hour))

getOneTimeDueDate(f, t) ==
    IF f.DTStart = <<>> THEN Returned(Nil)
    ELSE getOneTimeDueDateWith(parseStartDate(f.DTStart, t), ParseDuration(f.Duration))

InOneTimeWindowWrong(today, start, endDate) == today > start /\ today < endDate
\* the window test of IsOneTimeTaskActive
InOneTimeWindow(today, start, endDate) ==
    (today = start \/ today > start) /\ today < endDate

IsOneTimeTaskActive(f, currentTime) ==
    IF IsZero(f.DTStart) THEN FALSE
    ELSE InOneTimeWindow(Truncate(currentTime), f.DTStart, f.DTStart + f.Duration)

\* fmt.Errorf("duration parsing error: %w", err)
WrapDurationError(msg) ==
    CASE msg = "duration must start with 'P'" ->
             "duration parsing error: duration must start with 'P'"
      [] msg = "unknown date unit" -> "duration parsing error: unknown date unit"
      [] msg = "unknown time unit" -> "duration parsing error: unknown time unit"
      [] OTHER -> "duration parsing error: time: invalid duration"

\* what ApplyDefaults hands back: the resolved front matter, an error, or
\* ParseDuration's panic
Defaults(kind, rrule, duration, start, msg) ==
    [kind |-> kind, RRule |-> rrule, Duration |-> duration, DTStart |-> start, msg |-> msg]

ApplyDefaultsWith(f, currentTime, dur) ==
    IF dur.kind = "panic" THEN Defaults("panic", "", 0, 0, NoError)
    ELSE IF dur.kind = "err" THEN Defaults("err", "", 0, 0, WrapDurationError(dur.msg))
    ELSE Defaults("ok", f.RRule, dur.d,
                  ParseStartDate(f.DTStart, Truncate(AddYears(currentTime, -1))),
                  NoError)

ApplyDefaults(f, currentTime) == ApplyDefaultsWith(f, currentTime, ParseDuration(f.Duration))

InWindowAfterOnly(today, occurrenceStart, occurrenceEnd) ==
    today > occurrenceStart /\ today < occurrenceEnd
InWindowEndIncluded(today, occurrenceStart, occurrenceEnd) ==
    (today = occurrenceStart \/ today > occurrenceStart) /\ today <= occurrenceEnd
\* the window test of IsTaskActive
InWindow(today, occurrenceStart, occurrenceEnd) ==
    (today = occurrenceStart \/ today > occurrenceStart) /\ today < occurrenceEnd

\* (bool, error)
Verdict(active, err) == [active |-> active, err |-> err]

\* the loop over the occurrences
AnyWindow(today, duration, occurrences) ==
    \E k \in 1..Len(occurrences) :
        InWindow(today, Truncate(occurrences[k]), Truncate(occurrences[k]) + duration)

IsTaskActiveWith(f, today, r) ==
    IF ~r.ok THEN Verdict(FALSE, "RRULE parsing error")
    ELSE Verdict(AnyWindow(today, f.Duration,
                           Between(r, f.DTStart, f.DTStart, today + f.Duration)),
                 NoError)

IsTaskActiveOfInstant(f, currentTime) ==
    IF f.RRule # ""
    THEN IsTaskActiveWith(f, currentTime, StrToRRule(f.RRule))
    ELSE IF ~IsZero(f.DTStart)
    THEN Verdict(InOneTimeWindow(currentTime, f.DTStart, f.DTStart + f.Duration), NoError)
    ELSE Verdict(FALSE, NoError)
IsTaskActive(f, currentTime) ==
    IF f.RRule # ""
    THEN IsTaskActiveWith(f, Truncate(currentTime), StrToRRule(f.RRule))
    ELSE IF ~IsZero(f.DTStart)
    THEN Verdict(IsOneTimeTaskActive(f, currentTime), NoError)
    ELSE Verdict(FALSE, NoError)

----------------------------------------------------------------------------
(* Spec: the WalkDir callback of main on one markdown file *)

RuleTexts ==
    { "", "FREQ=DAILY", "FREQ=DAILY;INTERVAL=2", "FREQ=DAILY;INTERVAL=3;COUNT=2",
      "FREQ=WEEKLY", "FREQ=BOGUS" }

DurationTexts ==
    { <<>>, <<"P","2","D">>, <<"P","3","D">>, <<"P","T","2","H">>,
      <<"P","1","D","T","2","H">>, <<"P","0","D">>, <<"P","X">>,
      <<"X","Y","Z">>, <<"P","5">> }

StartTexts ==
    { <<>>,
      <<"0","0","0","1","-","0","1","-","0","1">>,
      <<"0","0","0","2","-","0","1","-","0","8">>,
      <<"0","0","0","2","-","0","1","-","1","0">>,
      <<"0","0","0","2","-","0","1","-","1","1","T","1","2",":","0","0",":","0","0","Z">>,
      <<"0","0","0","2","-","0","1","-","0","9","T","0","6",":","3","0",":","0","0">>,
      <<"0","0","0","2","0","1","1","2","T","0","0","0","0","0","0","Z">>,
      <<"0","0","0","2","-","0","1","-","1","5">>,
      <<"0","0","0","3","-","0","1","-","1","1">>,
      <<"s","o","o","n">> }

FrontMatters == [RRule : RuleTexts, Duration : DurationTexts, DTStart : StartTexts]

\* the first day of the wall clock: 0002-01-10
ClockBase == (DaysBeforeYear(2) + 9) * Day

\* the instants the wall clock takes: midnight and noon of each day
ClockInstants ==
    { ClockBase + d * Day + o : d \in 0..MaxClockDay, o \in {0, 12 * Hour} }

NotRead == -1
NoReads == [next |-> NotRead, due |-> NotRead, once |-> NotRead,
            defaults |-> NotRead, active |-> NotRead]

NoFrontMatter == [RRule |-> "", Duration |-> <<>>, DTStart |-> <<>>]
NoDefaults == [kind |-> "none", RRule |-> "", Duration |-> 0, DTStart |-> 0, msg |-> ""]
NoVerdict == [active |-> FALSE, err |-> "none"]

\* ParseStartDate not called outside SpecStart
StartIdle ==
    /\ startText = <<>>
    /\ startFallback = ZeroTime
    /\ startResult = NotRead

\* one file outside SpecScan: WalkFile draws its front matter
ScanIdle ==
    /\ files = <<>>
    /\ idx = 0

Init ==
    /\ durText = <<>>
    /\ durResult = NotRun
    /\ StartIdle
    /\ ScanIdle
    /\ now = ClockBase
    /\ pc = "walk"
    /\ fm = NoFrontMatter
    /\ task = EmptyTask
    /\ clk = NoReads
    /\ fmd = NoDefaults
    /\ verdict = NoVerdict
    /\ activeTasks = <<>>
    /\ inactiveTasks = <<>>
    /\ errorTasks = <<>>

\* the wall clock advances while the callback runs
Tick ==
    /\ pc \notin {"done", "panic"}
    /\ \E t \in ClockInstants : t > now /\ now' = t
    /\ UNCHANGED <<durVars, startVars, scanVars, pc, fm, task, clk, fmd, verdict,
                   activeTasks, inactiveTasks, errorTasks>>

\* WalkDir reaches a .md file; parseFrontMatter reads its front matter
WalkFile ==
    /\ pc = "walk"
    /\ \E f \in FrontMatters : fm' = f
    /\ pc' = "processFile"
    /\ UNCHANGED <<durVars, startVars, scanVars, now, task, clk, fmd, verdict,
                   activeTasks, inactiveTasks, errorTasks>>

\* processFile, recurring branch, first half: getNextOccurrence
GetNextOccurrence ==
    /\ pc = "processFile"
    /\ fm.RRule # ""
    /\ task' = TaskOf("task", fm.RRule, fm.Duration, getNextOccurrence(fm, now), Nil)
    /\ clk' = [clk EXCEPT !.next = now]
    /\ pc' = "dueDate"
    /\ UNCHANGED <<durVars, startVars, scanVars, now, fm, fmd, verdict,
                   activeTasks, inactiveTasks, errorTasks>>

\* processFile, recurring branch, second half: getCurrentDueDate
GetCurrentDueDate ==
    /\ pc = "dueDate"
    /\ \E due \in {getCurrentDueDate(fm, now)} :
       /\ task' = IF due.panic THEN task ELSE [task EXCEPT !.DueDate = due.ptr]
       /\ pc' = IF due.panic THEN "panic" ELSE "isTaskActive"
    /\ clk' = [clk EXCEPT !.due = now]
    /\ UNCHANGED <<durVars, startVars, scanVars, now, fm, fmd, verdict,
                   activeTasks, inactiveTasks, errorTasks>>

\* processFile, one-time branch: getOneTimeDueDate and parseStartDate
ProcessOneTime ==
    /\ pc = "processFile"
    /\ fm.RRule = ""
    /\ fm.DTStart # <<>>
    /\ \E due \in {getOneTimeDueDate(fm, now)} :
       /\ task' = IF due.panic THEN task
                  ELSE TaskOf("task", "ONCE", fm.Duration,
                              Ptr(parseStartDate(fm.DTStart, now)), due.ptr)
       /\ pc' = IF due.panic THEN "panic" ELSE "isTaskActive"
    /\ clk' = [clk EXCEPT !.once = now]
    /\ UNCHANGED <<durVars, startVars, scanVars, now, fm, fmd, verdict,
                   activeTasks, inactiveTasks, errorTasks>>

\* processFile without rrule and dtstart: Task{}, which main skips
ProcessNoTask ==
    /\ pc = "processFile"
    /\ fm.RRule = ""
    /\ fm.DTStart = <<>>
    /\ task' = EmptyTask
    /\ pc' = "done"
    /\ UNCHANGED <<durVars, startVars, scanVars, now, fm, clk, fmd, verdict,
                   activeTasks, inactiveTasks, errorTasks>>

\* isTaskActive, first half: ApplyDefaults(fm, time.Now()); its error puts the
\* task on the error list
CallApplyDefaults ==
    /\ pc = "isTaskActive"
    /\ \E d \in {ApplyDefaults(fm, now)} :
       /\ fmd' = d
       /\ clk' = [clk EXCEPT !.defaults = now]
       /\ CASE d.kind = "panic" ->
                 /\ pc' = "panic"
                 /\ UNCHANGED <<task, verdict, errorTasks>>
            [] d.kind = "err" ->
                 /\ pc' = "done"
                 /\ verdict' = Verdict(FALSE, d.msg)
                 /\ task' = [task EXCEPT !.Error = d.msg]
                 /\ errorTasks' = Append(errorTasks, task')
            [] OTHER ->
                 /\ pc' = "IsTaskActive"
                 /\ UNCHANGED <<task, verdict, errorTasks>>
    /\ UNCHANGED <<durVars, startVars, scanVars, now, fm, activeTasks, inactiveTasks>>

\* isTaskActive, second half: IsTaskActive(fmWithDefaults, time.Now()), and
\* main's append to one of the three lists
CallIsTaskActive ==
    /\ pc = "IsTaskActive"
    /\ \E v \in {IsTaskActive(fmd, now)} :
       /\ verdict' = v
       /\ CASE v.err # NoError ->
                 /\ task' = [task EXCEPT !.Error = v.err]
                 /\ errorTasks' = Append(errorTasks, task')
                 /\ UNCHANGED <<activeTasks, inactiveTasks>>
            [] v.err = NoError /\ v.active ->
                 /\ activeTasks' = Append(activeTasks, task)
                 /\ UNCHANGED <<task, inactiveTasks, errorTasks>>
            [] OTHER ->
                 /\ inactiveTasks' = Append(inactiveTasks, task)
                 /\ UNCHANGED <<task, activeTasks, errorTasks>>
    /\ clk' = [clk EXCEPT !.active = now]
    /\ pc' = "done"
    /\ UNCHANGED <<durVars, startVars, scanVars, now, fm, fmd>>

Next ==
    \/ Tick
    \/ WalkFile
    \/ GetNextOccurrence
    \/ GetCurrentDueDate
    \/ ProcessOneTime
    \/ ProcessNoTask
    \/ CallApplyDefaults
    \/ CallIsTaskActive

Spec == Init /\ [][Next]_vars

----------------------------------------------------------------------------
(* SpecDur: ParseDuration on bounded inputs *)

\* the characters the drawn texts are made of: the prefix, the T marker, the
\* units of both parts, a letter that is no unit, and three digits.  Y occurs
\* in DurationExamples only, which keeps every span below 2^31 seconds.
Alphabet == {"P", "T", "D", "W", "M", "H", "S", "X", "0", "1", "2"}

\* the inputs of TestParseDuration, the README's duration examples, and texts
\* with a year unit
DurationExamples ==
    { <<"P","1","0","D">>, <<"P","T","3","0","M">>, <<"P","1","D","T","2","H">>,
      <<"P","T","1","H","3","0","M">>, <<"i","n","v","a","l","i","d">>,
      <<"P","1","Y">>, <<"P","2","Y","1","M">>, <<"P","1","M","T","1","M">>,
      <<"P","1","Y","T","1","S">>, <<"P","1","Y","2","W","3","D">>,
      <<"P","X","1","D">>, <<"P","1","X">>, <<"P","T","1","Y">>, <<"P","1","H">> }

DurationInputs ==
    UNION { [1..n -> Alphabet] : n \in 0..MaxLen } \cup DurationExamples

EngineIdle ==
    /\ now = ClockBase
    /\ pc = "idle"
    /\ fm = NoFrontMatter
    /\ task = EmptyTask
    /\ clk = NoReads
    /\ fmd = NoDefaults
    /\ verdict = NoVerdict
    /\ activeTasks = <<>>
    /\ inactiveTasks = <<>>
    /\ errorTasks = <<>>

InitDur ==
    /\ durText \in DurationInputs
    /\ durResult = NotRun
    /\ StartIdle
    /\ ScanIdle
    /\ EngineIdle

CallParseDuration ==
    /\ durResult = NotRun
    /\ durResult' = ParseDuration(durText)
    /\ UNCHANGED <<durText, startVars, scanVars, engineVars>>

NextDur == CallParseDuration

SpecDur == InitDur /\ [][NextDur]_vars

----------------------------------------------------------------------------
(* SpecStart: ParseStartDate on bounded inputs, and ApplyDefaults on a front *)
(* matter with that dtstart                                                  *)

\* start texts beside those of StartTexts: the shapes of TestParseStartDate
\* and of the four formats, and texts that miss a format by one detail
StartExamples ==
    { <<"0","0","0","2","-","0","1","-","2","0">>,
      <<"0","0","0","4","-","0","2","-","2","9">>,
      <<"0","0","0","2","-","0","2","-","2","9">>,
      <<"0","0","0","2","-","1","3","-","0","1">>,
      <<"0","0","0","2","-","0","1","-","0","0">>,
      <<"0","0","0","2","-","0","1","-","1","0","x">>,
      <<" ","0","0","0","2","-","0","1","-","1","0">>,
      <<"0","0","0","2","-","1","-","1","0">>,
      <<"0","0","0","2","/","0","1","/","1","0">>,
      <<"1","0","-","0","1","-","0","0","0","2">>,
      <<"0","0","0","2","-","0","1","-","0","9","T","2","3",":","5","9",":","5","9","Z">>,
      <<"0","0","0","2","-","0","1","-","0","9","T","2","3",":","5","9",":","5","9">>,
      <<"0","0","0","2","-","0","1","-","0","9","T","6",":","3","0",":","0","0","Z">>,
      <<"0","0","0","2","-","0","1","-","0","9","T","0","6",":","3","0",":","0","0",".","5","Z">>,
      <<"0","0","0","2","-","0","1","-","0","9","T","2","4",":","0","0",":","0","0","Z">>,
      <<"0","0","0","2","-","0","1","-","0","9","T","0","6",":","6","0",":","0","0">>,
      <<"0","0","0","2","-","0","1","-","0","9","T","0","6",":","3","0","Z">>,
      <<"0","0","0","2","-","0","1","-","0","9","T","0","6",":","3","0",":","0","0","+","0","1",":","0","0">>,
      <<"0","0","0","2","-","0","1","-","0","9"," ","0","6",":","3","0",":","0","0">>,
      <<"0","0","0","2","0","1","2","0","T","0","0","0","0","0","0","Z">>,
      <<"0","0","0","2","0","1","1","2","T","1","2","0","0","0","0","Z">>,
      <<"0","0","0","2","0","1","1","2","T","0","0","0","0","0","0">>,
      <<"0","0","0","2","0","1","1","2">>,
      <<"0","0","0","2","1","3","0","1","T","0","0","0","0","0","0","Z">> }

StartInputs == StartTexts \cup StartExamples

\* the fallbacks a caller may supply: clock instants, and those one year back
Fallbacks == ClockInstants \cup { Truncate(AddYears(t, -1)) : t \in ClockInstants }

InitStart ==
    /\ durText = <<>>
    /\ durResult = NotRun
    /\ startText \in StartInputs
    /\ startFallback \in Fallbacks
    /\ startResult = NotRead
    /\ ScanIdle
    /\ EngineIdle

CallParseStartDate ==
    /\ startResult = NotRead
    /\ startResult' = ParseStartDate(startText, startFallback)
    /\ UNCHANGED <<durVars, startText, startFallback, scanVars, engineVars>>

\* isTaskActive's ApplyDefaults(fm, time.Now()) on a front matter whose dtstart
\* is startText
CallApplyDefaultsOnStart ==
    /\ fmd = NoDefaults
    /\ \E t \in ClockInstants :
       /\ now' = t
       /\ fm' = [RRule |-> "", Duration |-> <<>>, DTStart |-> startText]
       /\ fmd' = ApplyDefaults(fm', t)
       /\ clk' = [clk EXCEPT !.defaults = t]
    /\ UNCHANGED <<durVars, startVars, scanVars, pc, task, verdict,
                   activeTasks, inactiveTasks, errorTasks>>

NextStartDate ==
    \/ CallParseStartDate
    \/ CallApplyDefaultsOnStart

SpecStart == InitStart /\ [][NextStartDate]_vars

----------------------------------------------------------------------------
(* SpecScan: main's WalkDir over several markdown files, the clock standing  *)
(* still during the scan                                                     *)

\* the files of a scan: definitions that are Active, Inactive and one-time,
\* a file without task, and definitions with a broken duration, rule or
\* start text
ScanFrontMatters ==
    { [RRule |-> "FREQ=DAILY", Duration |-> <<"P","2","D">>,
       DTStart |-> <<"0","0","0","2","-","0","1","-","0","8">>],
      [RRule |-> "FREQ=DAILY;INTERVAL=3;COUNT=2", Duration |-> <<>>,
       DTStart |-> <<"0","0","0","2","-","0","1","-","0","8">>],
      [RRule |-> "", Duration |-> <<"P","3","D">>,
       DTStart |-> <<"0","0","0","2","-","0","1","-","1","0">>],
      NoFrontMatter,
      [RRule |-> "FREQ=DAILY", Duration |-> <<"X","Y","Z">>, DTStart |-> <<>>],
      [RRule |-> "FREQ=BOGUS", Duration |-> <<"P","2","D">>, DTStart |-> <<>>],
      [RRule |-> "FREQ=WEEKLY", Duration |-> <<"P","1","D","T","2","H">>,
       DTStart |-> <<"s","o","o","n">>],
      [RRule |-> "FREQ=DAILY", Duration |-> <<"P","5">>, DTStart |-> <<>>] }

InitScan ==
    /\ durText = <<>>
    /\ durResult = NotRun
    /\ StartIdle
    /\ files \in UNION { [1..n -> ScanFrontMatters] : n \in 1..MaxFiles }
    /\ idx = 0
    /\ now \in ClockInstants
    /\ pc = "walk"
    /\ fm = NoFrontMatter
    /\ task = EmptyTask
    /\ clk = NoReads
    /\ fmd = NoDefaults
    /\ verdict = NoVerdict
    /\ activeTasks = <<>>
    /\ inactiveTasks = <<>>
    /\ errorTasks = <<>>

\* WalkDir calls the callback on the next .md file; parseFrontMatter reads it
VisitFile ==
    /\ pc = "walk"
    /\ idx < Len(files)
    /\ idx' = idx + 1
    /\ fm' = files[idx + 1]
    /\ pc' = "processFile"
    /\ task' = EmptyTask
    /\ clk' = NoReads
    /\ fmd' = NoDefaults
    /\ verdict' = NoVerdict
    /\ UNCHANGED <<durVars, startVars, files, now,
                   activeTasks, inactiveTasks, errorTasks>>

\* the callback returns nil and WalkDir goes on
ReturnFromCallback ==
    /\ pc = "done"
    /\ pc' = "walk"
    /\ UNCHANGED <<durVars, startVars, scanVars, now, fm, task, clk, fmd, verdict,
                   activeTasks, inactiveTasks, errorTasks>>

\* WalkDir returns after the last file, and main prints the three lists
EndWalk ==
    /\ pc = "walk"
    /\ idx = Len(files)
    /\ pc' = "end"
    /\ UNCHANGED <<durVars, startVars, scanVars, now, fm, task, clk, fmd, verdict,
                   activeTasks, inactiveTasks, errorTasks>>

NextScan ==
    \/ VisitFile
    \/ GetNextOccurrence
    \/ GetCurrentDueDate
    \/ ProcessOneTime
    \/ ProcessNoTask
    \/ CallApplyDefaults
    \/ CallIsTaskActive
    \/ ReturnFromCallback
    \/ EndWalk

SpecScan == InitScan /\ [][NextScan]_vars

----------------------------------------------------------------------------
(* Claims about ParseDuration (checked under SpecDur) *)

Called == durResult # NotRun

\* the part of a text before its first T and the part after it
DatePartOf(text) ==
    LET t == IndexOf(Drop(text, 1), "T")
    IN IF t > 0 THEN SubSeq(text, 2, t) ELSE Drop(text, 1)

TimePartOf(text) ==
    LET t == IndexOf(Drop(text, 1), "T")
    IN IF t > 0 THEN Drop(text, t + 1) ELSE <<>>

\* the <integer><unit> pairs a part is made of, in order
RECURSIVE PairsOf(_)
PairsOf(part) ==
    LET n == DigitRun(part)
    IN IF n = 0 \/ n >= Len(part) THEN <<>>
       ELSE <<[value |-> Atoi(SubSeq(part, 1, n)), unit |-> part[n + 1]]>>
            \o PairsOf(Drop(part, n + 1))

\* the unit sizes the claim fixes, in seconds
FixedSize(beforeT, unit) ==
    IF beforeT
    THEN CASE unit = "D" -> 86400
           [] unit = "W" -> 604800
           [] unit = "M" -> 2592000
           [] unit = "Y" -> 31536000
    ELSE CASE unit = "H" -> 3600
           [] unit = "M" -> 60
           [] unit = "S" -> 1

RECURSIVE PlainSum(_, _)
PlainSum(pairs, beforeT) ==
    IF pairs = <<>> THEN 0
    ELSE Head(pairs).value * FixedSize(beforeT, Head(pairs).unit)
         + PlainSum(Tail(pairs), beforeT)

\* C8: every duration text ParseDuration accepts yields the plain sum of its
\* <integer><unit> pairs with the fixed unit sizes (D = 24 h, W = 7 d,
\* M = 30 d, Y = 365 d before T; H, M = 1 min, S after T), and the empty text
\* yields exactly 24 hours.
C8_PlainSumOfPairs ==
    (Called /\ durResult.kind = "ok") =>
        durResult.d =
            IF durText = <<>> THEN 86400
            ELSE PlainSum(PairsOf(DatePartOf(durText)), TRUE)
                 + PlainSum(PairsOf(TimePartOf(durText)), FALSE)

\* "P1MT1M" was parsed: the M before T counted 30 days, the M after it 1 minute
C8_Witness ==
    /\ durText = <<"P", "1", "M", "T", "1", "M">>
    /\ durResult = DurOk(2592060)

\* C9: every non-empty text that does not begin with P makes ParseDuration
\* fail with the format error "duration must start with 'P'", and no span is
\* returned.
C9_MustStartWithP ==
    (Called /\ durText # <<>> /\ Head(durText) # "P") =>
        durResult = DurErr("duration must start with 'P'")

\* "invalid" was rejected
C9_Witness ==
    /\ durText = <<"i", "n", "v", "a", "l", "i", "d">>
    /\ durResult.kind = "err"

\* a character after P that is neither a digit nor a unit of its part (nor,
\* in the date part, the T marker)
HasUnknownUnit(text) ==
    /\ text # <<>>
    /\ Head(text) = "P"
    /\ \/ \E k \in 1..Len(DatePartOf(text)) :
             LET c == DatePartOf(text)[k] IN ~IsDigit(c) /\ c \notin {"D", "W", "M", "Y"}
       \/ \E k \in 1..Len(TimePartOf(text)) :
             LET c == TimePartOf(text)[k] IN ~IsDigit(c) /\ c \notin {"H", "M", "S"}

\* C10: an unrecognized unit letter anywhere after P, whether or not digits
\* precede it, makes ParseDuration fail with a format error.
C10_UnknownUnitFails ==
    (Called /\ HasUnknownUnit(durText)) => durResult.kind = "err"

\* C11: ParseDuration is total: on every input text, also one whose run of
\* digits is followed by no unit letter, it returns a span or an error and
\* fails in no other way.
C11_ParseDurationTotal ==
    Called => durResult.kind \in {"ok", "err"}

----------------------------------------------------------------------------
(* Claims about the activation engine (checked under Spec) *)

\* the midnights from the day of instant a to the day of instant b
Midnights(a, b) == { d * Day : d \in (a \div Day)..(b \div Day) }

\* o is an occurrence of rule r counted from dtstart
OccursOn(r, dtstart, o) ==
    /\ o >= dtstart
    /\ (o - dtstart) % Step(r) = 0
    /\ r.count = 0 \/ (o - dtstart) \div Step(r) < r.count

\* o is an occurrence of the resolved definition f: of its rule, or its start
\* when it has no rule
OccurrenceOf(f, o) ==
    IF f.RRule = "" THEN o = f.DTStart
    ELSE OccursOn(StrToRRule(f.RRule), f.DTStart, o)

\* the occurrences of f whose window holds today; each of them lies after
\* today - duration
WindowsHolding(f, today) ==
    { o \in Midnights(Max(f.DTStart, today - f.Duration), today) :
        OccurrenceOf(f, o) /\ o <= today /\ today < o + f.Duration }

\* IsTaskActive returned for a resolved definition
Evaluated == pc = "done" /\ clk.active # NotRead

Recurring(f) == f.RRule # "" /\ StrToRRule(f.RRule).ok

\* C1: for a resolved recurring definition whose rule parses, IsTaskActive
\* returns Active exactly when some occurrence o of the rule has
\* o <= today < o + duration, today being its time argument truncated to
\* midnight, and Inactive (without error) otherwise; main lists the task
\* accordingly.
C1_ActiveIffInSomeWindow ==
    (Evaluated /\ Recurring(fmd)) =>
        /\ verdict = Verdict(WindowsHolding(fmd, Truncate(clk.active)) # {}, NoError)
        /\ verdict.active => activeTasks = <<task>>
        /\ ~verdict.active => inactiveTasks = <<task>>

\* a recurring task found Active at noon of a day that is no occurrence
C1_Witness ==
    /\ Evaluated /\ Recurring(fmd)
    /\ verdict.active
    /\ clk.active % Day # 0
    /\ ~OccurrenceOf(fmd, Truncate(clk.active))

\* the definition processFile resolves at clock value t: the front matter
\* with the duration and start date its functions compute
ResolvedAt(t) ==
    [RRule |-> fm.RRule, Duration |-> ParseDuration(fm.Duration).d,
     DTStart |-> parseStartDate(fm.DTStart, t)]

DurationParses == ParseDuration(fm.Duration).kind = "ok"

RECURSIVE OnlyPairs(_, _)
OnlyPairs(part, units) ==
    \/ part = <<>>
    \/ LET n == DigitRun(part)
       IN /\ n >= 1
          /\ n < Len(part)
          /\ part[n + 1] \in units
          /\ OnlyPairs(Drop(part, n + 1), units)

Malformed(text) ==
    /\ text # <<>>
    /\ ~ /\ Head(text) = "P"
         /\ OnlyPairs(DatePartOf(text), {"Y", "M", "W", "D"})
         /\ OnlyPairs(TimePartOf(text), {"H", "M", "S"})

\* C3: a task whose duration text is malformed, or whose rule the library
\* rejects, ends on the error list with its message, never on the active or
\* the inactive list.
C3_MalformedIsError ==
    (pc = "done" /\ task.Name # ""
       /\ (Malformed(fm.Duration) \/ (fm.RRule # "" /\ ~StrToRRule(fm.RRule).ok))) =>
        /\ errorTasks = <<task>>
        /\ task.Error # NoError
        /\ activeTasks = <<>>
        /\ inactiveTasks = <<>>

\* C4: for a recurring definition found Inactive, nextStart is the earliest
\* occurrence strictly after today and no later than today plus one year
\* (today: the day getNextOccurrence read), and none exactly when no
\* occurrence lies in that range.
C4_NextStartIsEarliestWithinYear ==
    (Evaluated /\ Recurring(fm) /\ inactiveTasks = <<task>>) =>
        LET today == Truncate(clk.next)
            start == parseStartDate(fm.DTStart, clk.next)
            r == StrToRRule(fm.RRule)
        IN IF task.NextStart.set
           THEN /\ task.NextStart.at > today
                /\ task.NextStart.at <= AddYears(today, 1)
                /\ OccursOn(r, start, task.NextStart.at)
                /\ \A o \in Midnights(today + Day, task.NextStart.at - Day) :
                       ~OccursOn(r, start, o)
           ELSE \A o \in Midnights(today + Day, AddYears(today, 1)) :
                       ~OccursOn(r, start, o)

\* an Inactive recurring task whose next start is more than a day ahead
C4_Witness ==
    /\ Evaluated /\ Recurring(fm) /\ inactiveTasks = <<task>>
    /\ task.NextStart.set
    /\ task.NextStart.at > Truncate(clk.next) + Day

\* C5: for a one-time definition (empty rule) IsTaskActive returns Active
\* exactly when start <= today < start + duration.
C5_OneTimeActiveIffInWindow ==
    (Evaluated /\ fmd.RRule = "") =>
        LET today == Truncate(clk.active)
        IN verdict = Verdict(fmd.DTStart <= today /\ today < fmd.DTStart + fmd.Duration,
                             NoError)

\* a one-time task found Active on its start day, at noon
C5_Witness ==
    /\ Evaluated /\ fmd.RRule = ""
    /\ verdict.active
    /\ clk.active % Day # 0
    /\ Truncate(clk.active) = fmd.DTStart

\* C6: a one-time definition that is not Active reports nextStart = start when
\* start > today, and none when start <= today.
C6_OneTimeNextStart ==
    (Evaluated /\ fmd.RRule = "" /\ ~verdict.active) =>
        task.NextStart = IF fmd.DTStart > Truncate(clk.active)
                         THEN Ptr(fmd.DTStart) ELSE Nil

\* the verdict of a definition that resolved and whose rule, if any, parses
Judged == Evaluated /\ verdict.err = NoError

\* C7 as stated: for every occurrence o, today = o gives Active and
\* today = o + duration gives Inactive.
C7_BoundaryLawAsStated ==
    Judged =>
        LET today == Truncate(clk.active)
        IN /\ OccurrenceOf(fmd, today) => verdict.active
           /\ OccurrenceOf(fmd, today - fmd.Duration) => ~verdict.active

\* C7 amended: today = o gives Active exactly when the duration is positive;
\* today = o + duration lies outside the window of o, and the verdict is
\* Active exactly when the window of another occurrence holds today.
C7_BoundaryLaw ==
    Judged =>
        LET today == Truncate(clk.active)
        IN /\ OccurrenceOf(fmd, today) => (verdict.active <=> fmd.Duration > 0)
           /\ OccurrenceOf(fmd, today - fmd.Duration) =>
                 (verdict.active <=>
                    WindowsHolding(fmd, today) \ {today - fmd.Duration} # {})

\* today is the end of the window of an occurrence, and the task is Inactive
C7_Witness ==
    /\ Judged
    /\ fmd.Duration > 0
    /\ OccurrenceOf(fmd, Truncate(clk.active) - fmd.Duration)
    /\ ~verdict.active

\* C12: every resolved definition that ApplyDefaults returns without error
\* has a duration greater than zero.
C12_ResolvedDurationPositive ==
    fmd.kind = "ok" => fmd.Duration > 0

----------------------------------------------------------------------------
(* Claims about ParseStartDate (checked under SpecStart) *)

StartCalled == startResult # NotRead

\* no format of the formats slice parses the text
MatchesNoFormat(text) == \A k \in 1..4 : ~Formats(text)[k].ok

\* texts that none of the four formats accepts: a word, a day or month or
\* hour or minute out of range, text before or after the date, other
\* separators, fields in another order, a date-time without seconds or with a
\* zone offset or a space for T, a compact text with a time of day or without
\* its T000000Z
UnmatchedExamples ==
    { <<"s","o","o","n">>,
      <<"0","0","0","2","-","0","2","-","2","9">>,
      <<"0","0","0","2","-","1","3","-","0","1">>,
      <<"0","0","0","2","-","0","1","-","0","0">>,
      <<"0","0","0","2","-","0","1","-","1","0","x">>,
      <<" ","0","0","0","2","-","0","1","-","1","0">>,
      <<"0","0","0","2","-","1","-","1","0">>,
      <<"0","0","0","2","/","0","1","/","1","0">>,
      <<"1","0","-","0","1","-","0","0","0","2">>,
      <<"0","0","0","2","-","0","1","-","0","9","T","2","4",":","0","0",":","0","0","Z">>,
      <<"0","0","0","2","-","0","1","-","0","9","T","0","6",":","6","0",":","0","0">>,
      <<"0","0","0","2","-","0","1","-","0","9","T","0","6",":","3","0","Z">>,
      <<"0","0","0","2","-","0","1","-","0","9","T","0","6",":","3","0",":","0","0","+","0","1",":","0","0">>,
      <<"0","0","0","2","-","0","1","-","0","9"," ","0","6",":","3","0",":","0","0">>,
      <<"0","0","0","2","0","1","1","2","T","1","2","0","0","0","0","Z">>,
      <<"0","0","0","2","0","1","1","2","T","0","0","0","0","0","0">>,
      <<"0","0","0","2","0","1","1","2">>,
      <<"0","0","0","2","1","3","0","1","T","0","0","0","0","0","0","Z">> }

Unmatched(text) == text = <<>> \/ text \in UnmatchedExamples \/ MatchesNoFormat(text)

\* one calendar year before the day of t, for the days of the wall clock: the
\* year from a January day of year 1 to the same day of year 2 has 365 days
OneCalendarYearBefore(t) == t - (t % 86400) - 365 * 86400

\* C13: ParseStartDate reports no error: for the empty text and for every
\* text that none of the four formats accepts it returns the supplied
\* fallback unchanged; ApplyDefaults returns no error for such a text and
\* supplies as fallback its time argument minus one calendar year, truncated
\* to midnight.
C13_FallbackWhenNoFormat ==
    /\ (StartCalled /\ Unmatched(startText)) => startResult = startFallback
    /\ fmd # NoDefaults => fmd.kind = "ok"
    /\ (fmd # NoDefaults /\ Unmatched(fm.DTStart)) =>
          fmd.DTStart = OneCalendarYearBefore(clk.defaults)

\* a date with day 29 of February in a common year fell back, in both calls,
\* the clock standing at noon
C13_Witness ==
    /\ startText = <<"0","0","0","2","-","0","2","-","2","9">>
    /\ StartCalled
    /\ startResult = startFallback
    /\ fmd.kind = "ok"
    /\ clk.defaults % 86400 # 0
    /\ fmd.DTStart = OneCalendarYearBefore(clk.defaults)

\* the midnight of the date a text is written with: the digits of year, month
\* and day, separated by dashes or, in the compact format, adjacent
DateWritten(text) ==
    IF Lit(text, 5, <<"-">>)
    THEN (DaysBeforeYear(Num(text, 1, 4)) + DaysBeforeMonth(Num(text, 1, 4), Num(text, 6, 2))
          + Num(text, 9, 2) - 1) * 86400
    ELSE (DaysBeforeYear(Num(text, 1, 4)) + DaysBeforeMonth(Num(text, 1, 4), Num(text, 5, 2))
          + Num(text, 7, 2) - 1) * 86400

\* texts the formats accept, one or more for each format in their order, and
\* the days they name counted from 0001-01-01
MatchedExamples ==
    { [text |-> <<"0","0","0","2","-","0","1","-","2","0">>, day |-> 365 + 19],
      [text |-> <<"0","0","0","4","-","0","2","-","2","9">>, day |-> 3 * 365 + 31 + 28],
      [text |-> <<"0","0","0","2","-","0","1","-","0","9","T","2","3",":","5","9",":","5","9","Z">>,
       day |-> 365 + 8],
      [text |-> <<"0","0","0","2","-","0","1","-","0","9","T","6",":","3","0",":","0","0","Z">>,
       day |-> 365 + 8],
      [text |-> <<"0","0","0","2","-","0","1","-","0","9","T","0","6",":","3","0",":","0","0",".","5","Z">>,
       day |-> 365 + 8],
      [text |-> <<"0","0","0","2","-","0","1","-","0","9","T","2","3",":","5","9",":","5","9">>,
       day |-> 365 + 8],
      [text |-> <<"0","0","0","2","0","1","2","0","T","0","0","0","0","0","0","Z">>,
       day |-> 365 + 19] }

\* C14: for every start text that one of the formats accepts, ParseStartDate
\* returns the date the first accepting format parses, truncated to midnight
\* UTC (no text is accepted by two formats, and whichever accepts it the
\* result is the midnight of the date written); every start date of a
\* resolved definition is midnight-aligned.
C14_FirstFormatAtMidnight ==
    /\ (StartCalled /\ ~Unmatched(startText)) =>
          /\ startResult = DateWritten(startText)
          /\ Cardinality({ k \in 1..4 : Formats(startText)[k].ok }) = 1
    /\ \A e \in MatchedExamples :
          (StartCalled /\ startText = e.text) => startResult = e.day * 86400
    /\ fmd # NoDefaults => fmd.DTStart % 86400 = 0

\* a date-time late in the day was resolved to the midnight of its date by
\* both calls
C14_Witness ==
    /\ startText = <<"0","0","0","2","-","0","1","-","0","9","T","2","3",":","5","9",":","5","9","Z">>
    /\ startResult = (365 + 8) * 86400
    /\ fmd.kind = "ok"
    /\ fmd.DTStart = (365 + 8) * 86400

----------------------------------------------------------------------------
(* Further claims about the activation engine (checked under Spec) *)

\* the callback returned with a task that main classifies
Classified == pc = "done" /\ task.Name # ""

\* C15: the result of a definition is exactly one of Active (with a due
\* date), Inactive (with a next start or none) and Error (with a message):
\* the task is on exactly one of the three lists, and a task with an error
\* carries neither a due date nor a next start.
C15_ExactlyOneVariant ==
    Classified =>
        /\ \/ activeTasks = <<task>> /\ inactiveTasks = <<>> /\ errorTasks = <<>>
           \/ activeTasks = <<>> /\ inactiveTasks = <<task>> /\ errorTasks = <<>>
           \/ activeTasks = <<>> /\ inactiveTasks = <<>> /\ errorTasks = <<task>>
        /\ activeTasks = <<task>> => task.Error = NoError /\ task.DueDate.set
        /\ inactiveTasks = <<task>> => task.Error = NoError
        /\ errorTasks = <<task>> =>
              task.Error # NoError /\ ~task.DueDate.set /\ ~task.NextStart.set

\* instants of the UTC day of t: its first and last second and two between
InstantsOfDay(t) == { (t - (t % 86400)) + s : s \in {0, 1, 43200, 86399} }

\* C17: the step that evaluates IsTaskActive yields the verdict and error
\* that an evaluation of the same resolved definition at any instant of the
\* same UTC day yields, and it leaves the definition, the front matter and
\* the clock as they were.
C17_SameDaySameVerdict ==
    [][ (pc = "IsTaskActive" /\ pc' = "done") =>
            /\ \A t \in InstantsOfDay(now) : IsTaskActive(fmd, t) = verdict'
            /\ fmd' = fmd
            /\ fm' = fm
            /\ now' = now ]_vars

\* a two-hour window that began at midnight, found Active at noon
C17_Witness ==
    /\ Evaluated
    /\ verdict.active
    /\ fmd.Duration = 7200
    /\ clk.active % 86400 = 43200

\* the clock value the due date of the task was computed at
DueClock == IF clk.due # NotRead THEN clk.due ELSE clk.once

\* the windows that hold the day the due date was computed on
HeldAtDue == WindowsHolding(ResolvedAt(DueClock), DueClock - (DueClock % 86400))

\* the last midnight inside the window [o, o + duration)
LastDayInside(o, duration) == (o + duration - 1) - ((o + duration - 1) % 86400)

\* C18: whenever a definition is Active, the day of its reported due date is
\* the last calendar day inside an active window [occ, occ + duration), also
\* for a duration below one day or not a whole number of days.
C18_DueDateIsLastDayInside ==
    (Classified /\ activeTasks = <<task>> /\ HeldAtDue # {}) =>
        /\ task.DueDate.set
        /\ \E o \in HeldAtDue :
              task.DueDate.at - (task.DueDate.at % 86400)
                  = LastDayInside(o, ResolvedAt(DueClock).Duration)

Earliest(days) == CHOOSE o \in days : \A p \in days : o <= p

\* C19: when the windows of several occurrences hold today, one due date is
\* reported, that of the earliest occurrence whose window holds today.
C19_EarliestWindowReported ==
    (clk.due # NotRead /\ pc # "panic" /\ DurationParses /\ Recurring(fm)
       /\ Cardinality(HeldAtDue) >= 2) =>
        task.DueDate = Ptr(Earliest(HeldAtDue) + ResolvedAt(DueClock).Duration - 86400)

\* an Active daily task of three days, today in the windows of three
\* occurrences
C19_Witness ==
    /\ Classified
    /\ activeTasks = <<task>>
    /\ clk.due # NotRead
    /\ Cardinality(HeldAtDue) = 3
    /\ task.DueDate = Ptr(Earliest(HeldAtDue) + 2 * 86400)

\* C20: when the duration text is malformed the result is the duration
\* error, whatever the rule text is: the task is on the error list with the
\* message of ApplyDefaults, and IsTaskActive, which parses the rule and
\* queries the occurrences for the verdict, is never called.
C20_MalformedDurationShortCircuits ==
    (Classified /\ Malformed(fm.Duration)) =>
        /\ fmd.kind = "err"
        /\ verdict = Verdict(FALSE, fmd.msg)
        /\ task.Error = fmd.msg
        /\ errorTasks = <<task>>
        /\ clk.active = NotRead

----------------------------------------------------------------------------
(* Claims about a scan of several files (checked under SpecScan) *)

\* the list a definition belongs on when it is evaluated alone at time t:
\* "none" for a file without task, "broken" when its evaluation does not
\* return
Outcome(f, t) ==
    IF f.RRule = "" /\ f.DTStart = <<>> THEN "none"
    ELSE IF ApplyDefaults(f, t).kind = "panic" THEN "broken"
    ELSE IF ApplyDefaults(f, t).kind = "err" THEN "error"
    ELSE IF IsTaskActive(ApplyDefaults(f, t), t).err # NoError THEN "error"
    ELSE IF IsTaskActive(ApplyDefaults(f, t), t).active THEN "active"
    ELSE "inactive"

\* the duration texts of the files with a given outcome, in scan order
ExpectedOn(list) ==
    LET chosen == SelectSeq(files, LAMBDA f : Outcome(f, now) = list)
    IN [i \in 1..Len(chosen) |-> chosen[i].Duration]

DurationsOn(tasks) == [i \in 1..Len(tasks) |-> tasks[i].Duration]

\* the scan is over: WalkDir returned, or the program stopped in a panic
ScanOver == pc \in {"end", "panic"}

\* C16: when the scan is over, every definition other than a broken one is
\* on the list it belongs on, in scan order, whatever broken definitions the
\* scan holds and wherever they stand.
C16_OthersStillReported ==
    ScanOver =>
        /\ DurationsOn(activeTasks) = ExpectedOn("active")
        /\ DurationsOn(inactiveTasks) = ExpectedOn("inactive")
        /\ DurationsOn(errorTasks) = ExpectedOn("error")

----------------------------------------------------------------------------
(* Claims about the separate clock reads of one file (checked under Spec) *)

\* C21: for a recurring definition with valid duration and rule, the task is
\* classified Active exactly when getCurrentDueDate yielded a due date, also
\* when the wall clock crosses a midnight between the clock reads of
\* processFile and those of isTaskActive.
C21_VerdictAgreesWithDueDate ==
    (Classified /\ Recurring(fm) /\ DurationParses /\ ~Malformed(fm.Duration)) =>
        /\ verdict.err = NoError
        /\ activeTasks = <<task>> <=> task.DueDate.set

====
